---- MODULE Spec2Model ----
(***************************************************************************)
(* Monitoring lifecycle controller of meadow/ui/menubar_app.py:            *)
(* MenubarApp.__init__/setup_config, start_monitoring, stop_monitoring,    *)
(* check_config_changes, get_current_log_path, take_screenshot_and_analyze *)
(* and the background cycle started by start_monitoring.                   *)
(*                                                                         *)
(* The handlers are public methods without any lock.  A caller is a thread *)
(* executing one handler; the interpreter may switch threads between the   *)
(* read of is_monitoring (line 166) and the write (line 167), and between  *)
(* os.path.exists (line 67) and open(..., 'w') (line 68), so these two     *)
(* handlers take two steps.  The body of meadow.core.monitor.monitoring_   *)
(* loop is not part of the sources at hand; its steps follow the           *)
(* description of the background cycle (loop-top check, interval sleep     *)
(* re-checking the flag, one capture/analysis, repeat) and see the         *)
(* controller only through what line 110 hands it: the configuration       *)
(* object of the launch and the closure reading is_monitoring.             *)
(***************************************************************************)
EXTENDS Naturals, FiniteSets, Bags

\* ---- bounds ----
NumConfigs == 2      \* distinct contents of a well-formed config.json
MaxThreads == 2      \* threads alive at once besides the one entering a handler: callers
                     \* between the two steps of a handler, monitoring_loop threads,
                     \* analyze_and_restore threads, generate threads
MaxRecords == 1      \* successful log appends

Configs == 1..NumConfigs

None == 0            \* self.config = None (line 27)

\* what open()/json.load() at lines 56-57 and 98-99 can find at config_path, which
\* the settings UI and editors rewrite at any time: a JSON document, no file,
\* text that is not JSON, bytes that are not UTF-8
GoodFile(c) == [kind |-> "json", cfg |-> c]
BadFile(k)  == [kind |-> k, cfg |-> None]
BadKinds    == {"missing", "badjson", "badbytes"}
FileStates  == {GoodFile(c) : c \in Configs} \cup {BadFile(k) : k \in BadKinds}

\* self.title values: lines 28/145/159/175, 168, 137, 152
IdleIcon        == "idle"
ActiveIcon      == "active"
AnalyzingTitle  == "analyzing"
GeneratingTitle == "generating"

\* what analyze_and_log_screenshot gives back: it raises ("error"), returns None
\* or an empty result ("none"), a result without research_summary ("nosummary"),
\* a result with a non-empty research_summary ("summary")
Outcomes == {"error", "none", "nosummary", "summary"}

\* what generate() meets inside its try: nothing, an exception of the note
\* synthesis (line 156), a failing `open` of the notes folder (line 157)
GenerateOutcomes == {"ok", "synthesis_failed", "open_failed"}

VARIABLES
  phase,          \* "unbuilt" | "built" | "failed": MenubarApp() not yet called / returned / raised
  ctorError,      \* exception type that escaped __init__, "none" if none
  timerStarted,   \* rumps.Timer(check_config_changes, 5) started (line 35)
  config,         \* self.config
  is_monitoring,  \* self.is_monitoring
  title,          \* self.title
  cycles,         \* alive monitoring_loop threads: a bag of thread states
  startChecked,   \* callers past line 166 (read False), before line 167
  logChecked,     \* callers past line 67 (log absent), before line 68
  oneoff,         \* alive analyze_and_restore threads
  generating,     \* alive generate threads (line 161)
  logExists,      \* today's log file exists
  logLen,         \* number of records in today's log file
  appended,       \* history: records ever appended to today's log
  lastEvent       \* history: "start_noop" after a Start() that read the flag True,
                  \* "poll_raised" after a poll that an exception escaped,
                  \* "cycle_failed" after a failed iteration,
                  \* "poll_same" after a poll that read the configuration it has,
                  \* "post_processed" after an analysis that invoked the post-processing,
                  \* "generate_failed" after a generate thread that met an exception,
                  \* "none" after any other step

state == <<phase, ctorError, timerStarted, config, is_monitoring, title,
           cycles, startChecked, logChecked, oneoff, generating, logExists, logLen,
           appended>>
vars  == <<phase, ctorError, timerStarted, config, is_monitoring, title,
           cycles, startChecked, logChecked, oneoff, generating, logExists, logLen,
           appended, lastEvent>>

One(c)            == SetToBag({c})
Alive             == BagCardinality(cycles)
Replace(cs, c, d) == (cs (-) One(c)) (+) One(d)

\* one more thread can be kept: a step that adds a thread is taken only then
Threads    == Alive + oneoff + generating + startChecked + logChecked
FreeThread == Threads < MaxThreads

\* ---------------------------------------------------------------------------
\* __init__ / setup_config
\* ---------------------------------------------------------------------------

\* exception raised by open() + json.load() on the file, "none" when it parses
ReadError(file) ==
  CASE file.kind = "missing"  -> "FileNotFoundError"
    [] file.kind = "badjson"  -> "JSONDecodeError"
    [] file.kind = "badbytes" -> "UnicodeDecodeError"
    [] OTHER                  -> "none"

\* mutant: the FileNotFoundError is not translated
SetupConfigError_Raw(file) == ReadError(file)

\* setup_config, lines 55-59: FileNotFoundError becomes RuntimeError("Configuration
\* not found..."); every other exception propagates as it is
SetupConfigError(file) ==
  IF ReadError(file) = "FileNotFoundError" THEN "RuntimeError" ELSE ReadError(file)

\* the distinct, user-actionable error of a missing configuration
ConfigMissing == "RuntimeError"

Init ==
  /\ phase = "unbuilt"
  /\ ctorError = "none"
  /\ timerStarted = FALSE
  /\ config = None
  /\ is_monitoring = FALSE
  /\ title = IdleIcon
  /\ cycles = EmptyBag
  /\ startChecked = 0
  /\ logChecked = 0
  /\ oneoff = 0
  /\ generating = 0
  /\ logExists = FALSE
  /\ logLen = 0
  /\ appended = 0
  /\ lastEvent = "none"

\* MenubarApp(), lines 24-35
Construct(file) ==
  /\ phase = "unbuilt"
  /\ IF SetupConfigError(file) = "none"
       THEN /\ phase' = "built"
            /\ config' = file.cfg
            /\ timerStarted' = TRUE
            /\ ctorError' = "none"
            /\ lastEvent' = "none"
       ELSE /\ phase' = "failed"
            /\ ctorError' = SetupConfigError(file)
            /\ lastEvent' = "none"
            /\ UNCHANGED <<config, timerStarted>>
  /\ UNCHANGED <<is_monitoring, title, cycles, startChecked, logChecked,
                 oneoff, generating, logExists, logLen, appended>>

\* ---------------------------------------------------------------------------
\* start_monitoring / stop_monitoring
\* ---------------------------------------------------------------------------

\* a monitoring_loop thread as started at line 169: line 110 passes it self.config
\* (the object current at launch) and a closure over self.is_monitoring.
\* stale, stopped are history: a drift restart happened while it was alive; a
\* stop was issued during its current interval sleep
NewCycle(c) == [pos |-> "top", cfg |-> c, stale |-> FALSE, stopped |-> FALSE]

\* mutant: the guard of line 166 is dropped
StartShouldLaunch_Always(flag) == TRUE

\* line 166: if not self.is_monitoring
StartShouldLaunch(flag) == ~flag

\* mutant: stop toggles the flag
StopFlagValue_Toggle(flag) == ~flag

\* line 174: self.is_monitoring = False
StopFlagValue(flag) == FALSE

StoppedMark(c) == IF c.pos = "sleep" THEN [c EXCEPT !.stopped = TRUE] ELSE c
MarkStopped(cs) == BagOfAll(StoppedMark, cs)

StaleMark(c)  == [c EXCEPT !.stale = TRUE]
MarkStale(cs) == BagOfAll(StaleMark, cs)

\* line 166: the read of self.is_monitoring
StartCheck ==
  /\ phase = "built"
  /\ IF StartShouldLaunch(is_monitoring)
       THEN /\ FreeThread
            /\ startChecked' = startChecked + 1
            /\ lastEvent' = "none"
       ELSE /\ startChecked' = startChecked
            /\ lastEvent' = "start_noop"
  /\ UNCHANGED <<phase, ctorError, timerStarted, config, is_monitoring, title,
                 cycles, logChecked, oneoff, generating, logExists, logLen, appended>>

\* lines 167-169: set the flag, the active icon, start the thread
StartLaunch ==
  /\ startChecked > 0
  /\ is_monitoring' = TRUE
  /\ title' = ActiveIcon
  /\ cycles' = cycles (+) One(NewCycle(config))
  /\ startChecked' = startChecked - 1
  /\ lastEvent' = "none"
  /\ UNCHANGED <<phase, ctorError, timerStarted, config, logChecked, oneoff, generating,
                 logExists, logLen, appended>>

\* lines 172-175
StopMonitoring ==
  /\ phase = "built"
  /\ is_monitoring' = StopFlagValue(is_monitoring)
  /\ title' = IdleIcon
  /\ cycles' = MarkStopped(cycles)
  /\ lastEvent' = "none"
  /\ UNCHANGED <<phase, ctorError, timerStarted, config, startChecked,
                 logChecked, oneoff, generating, logExists, logLen, appended>>

\* ---------------------------------------------------------------------------
\* check_config_changes
\* ---------------------------------------------------------------------------

\* line 105: except (FileNotFoundError, json.JSONDecodeError)
Caught(err) == err \in {"FileNotFoundError", "JSONDecodeError"}

\* mutant: the loaded dict is compared by identity, and it is always a new object
ConfigDiffers_Identity(new, cur) == TRUE

\* line 100: new_config != self.config, the structural comparison of two dicts
ConfigDiffers(new, cur) == new # cur

\* mutant: the restart does not look at the flag
ShouldRestart_Always(flag) == TRUE

\* line 102: if self.is_monitoring
ShouldRestart(flag) == flag

\* lines 95-106, called by the timer of line 35
CheckConfigChanges(file) ==
  /\ timerStarted
  /\ LET err      == ReadError(file)
         new      == file.cfg
         stopped  == StopFlagValue(is_monitoring)
         launch   == StartShouldLaunch(stopped)
     IN
     IF err # "none"
       THEN /\ lastEvent' = IF Caught(err) THEN "none" ELSE "poll_raised"
            /\ UNCHANGED <<config, is_monitoring, title, cycles>>
       ELSE IF ~ConfigDiffers(new, config)
         THEN /\ lastEvent' = "poll_same"
              /\ UNCHANGED <<config, is_monitoring, title, cycles>>
         ELSE /\ config' = new
              /\ IF ShouldRestart(is_monitoring)
                   THEN /\ launch => FreeThread
                        /\ is_monitoring' = (launch \/ stopped)
                        /\ title' = IF launch THEN ActiveIcon ELSE IdleIcon
                        /\ cycles' = IF launch
                                       THEN MarkStale(MarkStopped(cycles)) (+) One(NewCycle(new))
                                       ELSE MarkStale(MarkStopped(cycles))
                        /\ lastEvent' = "none"
                   ELSE /\ lastEvent' = "none"
                        /\ UNCHANGED <<is_monitoring, title, cycles>>
  /\ UNCHANGED <<phase, ctorError, timerStarted, startChecked, logChecked,
                 oneoff, generating, logExists, logLen, appended>>

\* ---------------------------------------------------------------------------
\* the background cycle: meadow.core.monitor.monitoring_loop as called at line 110
\* ---------------------------------------------------------------------------

\* line 143: if analysis_result
Truthy(r) == r \in {"nosummary", "summary"}

\* analysis_result.get('research_summary') is non-empty
HasSummary(r) == r = "summary"

\* mutant: every result is post-processed, summary or not
ShouldPostProcess_AnyResult(r) == Truthy(r)

\* line 115: if analysis_result and analysis_result.get('research_summary')
ShouldPostProcess(r) == Truthy(r) /\ HasSummary(r)

\* mutant: an error of capture or analysis ends the thread
AfterFailure_Dies(cs, c) == cs (-) One(c)

AtTop(c) == [c EXCEPT !.pos = "top", !.stopped = FALSE]

\* a failed iteration is contained: the thread is back at its loop-top
AfterFailure(cs, c) == Replace(cs, c, AtTop(c))

\* step 1: the loop-top check of the flag
LoopTop(c) ==
  /\ BagIn(c, cycles)
  /\ c.pos = "top"
  /\ cycles' = IF is_monitoring THEN Replace(cycles, c, [c EXCEPT !.pos = "sleep"])
                                ELSE cycles (-) One(c)
  /\ UNCHANGED <<phase, ctorError, timerStarted, config, is_monitoring, title,
                 startChecked, logChecked, oneoff, generating, logExists, logLen, appended>>
  /\ lastEvent' = "none"

\* step 2, flag read False during the sleep: the thread ends without a capture
SleepExit(c) ==
  /\ BagIn(c, cycles)
  /\ c.pos = "sleep"
  /\ ~is_monitoring
  /\ cycles' = cycles (-) One(c)
  /\ UNCHANGED <<phase, ctorError, timerStarted, config, is_monitoring, title,
                 startChecked, logChecked, oneoff, generating, logExists, logLen, appended>>
  /\ lastEvent' = "none"

\* step 2 ends with the flag read True, step 3 begins: the capture
Capture(c, ok) ==
  /\ BagIn(c, cycles)
  /\ c.pos = "sleep"
  /\ is_monitoring
  /\ IF ok
       THEN /\ cycles' = Replace(cycles, c, [c EXCEPT !.pos = "busy", !.stopped = FALSE])
            /\ title' = AnalyzingTitle
            /\ lastEvent' = "none"
       ELSE /\ cycles' = AfterFailure(cycles, c)
            /\ title' = title
            /\ lastEvent' = "cycle_failed"
  /\ UNCHANGED <<phase, ctorError, timerStarted, config, is_monitoring,
                 startChecked, logChecked, oneoff, generating, logExists, logLen, appended>>

\* step 3 continued: analysis, which appends its record to today's log (creating
\* the log on first access) and is followed by the post-processing when the
\* result carries a summary, then steps 4-5: the active indicator, the loop-top
Analyze(c, r) ==
  /\ BagIn(c, cycles)
  /\ c.pos = "busy"
  /\ title' = ActiveIcon
  /\ IF r # "error"
       THEN /\ appended < MaxRecords
            /\ cycles' = Replace(cycles, c, AtTop(c))
            /\ logExists' = TRUE
            /\ logLen' = logLen + 1
            /\ appended' = appended + 1
            /\ lastEvent' = IF ShouldPostProcess(r) THEN "post_processed" ELSE "none"
       ELSE /\ cycles' = AfterFailure(cycles, c)
            /\ lastEvent' = "cycle_failed"
            /\ UNCHANGED <<logExists, logLen, appended>>
  /\ UNCHANGED <<phase, ctorError, timerStarted, config, is_monitoring,
                 startChecked, logChecked, oneoff, generating>>

\* ---------------------------------------------------------------------------
\* take_screenshot_and_analyze / get_current_log_path
\* ---------------------------------------------------------------------------

\* lines 137-139 down to the os.path.exists of line 67; with the log present,
\* on to the thread start of line 147.  ok = FALSE: take_screenshot raises at
\* line 138 and the handler ends there, the title already set at line 137
AnalyzeOnceBegin(ok) ==
  /\ phase = "built"
  /\ title' = AnalyzingTitle
  /\ IF ~ok
       THEN /\ lastEvent' = "none"
            /\ UNCHANGED <<logChecked, oneoff, generating>>
       ELSE /\ FreeThread
            /\ lastEvent' = "none"
            /\ IF logExists
                 THEN /\ oneoff' = oneoff + 1
                      /\ logChecked' = logChecked
                 ELSE /\ logChecked' = logChecked + 1
                      /\ oneoff' = oneoff
  /\ UNCHANGED <<phase, ctorError, timerStarted, config, is_monitoring,
                 cycles, startChecked, generating, logExists, logLen, appended>>

\* lines 68-69: open(log_path, 'w') truncates, json.dump([]); then line 147
AnalyzeOnceInitLog ==
  /\ logChecked > 0
  /\ logExists' = TRUE
  /\ logLen' = 0
  /\ logChecked' = logChecked - 1
  /\ oneoff' = oneoff + 1
  /\ lastEvent' = "none"
  /\ UNCHANGED <<phase, ctorError, timerStarted, config, is_monitoring, title,
                 cycles, startChecked, generating, appended>>

\* mutant: the one-off thread restores by calling stop_monitoring
Restored_ViaStop(flag) == [is_monitoring |-> FALSE, title |-> IdleIcon]

\* lines 145 and 159: the idle icon is set; self.is_monitoring is not assigned
Restored(flag) == [is_monitoring |-> flag, title |-> IdleIcon]

\* analyze_and_restore, lines 141-145: the analysis appends its record to the log
\* at log_path; line 143-144 and 115-116 post-process its result; line 145 sets
\* the idle icon.  r = "error": the analysis raises; postOk = FALSE: the
\* post-processing raises; either way the thread ends before line 145
AnalyzeAndRestore(r, postOk) ==
  /\ oneoff > 0
  /\ oneoff' = oneoff - 1
  /\ IF r = "error"
       THEN /\ lastEvent' = "none"
            /\ UNCHANGED <<logLen, appended, title, is_monitoring>>
       ELSE /\ appended < MaxRecords
            /\ logLen' = logLen + 1
            /\ appended' = appended + 1
            /\ LET post == Truthy(r) /\ ShouldPostProcess(r) IN
               /\ lastEvent' = IF post THEN "post_processed" ELSE "none"
               /\ IF post /\ ~postOk
                    THEN UNCHANGED <<title, is_monitoring>>
                    ELSE /\ title' = Restored(is_monitoring).title
                         /\ is_monitoring' = Restored(is_monitoring).is_monitoring
  /\ UNCHANGED <<phase, ctorError, timerStarted, config, cycles, startChecked,
                 logChecked, generating, logExists>>

\* ---------------------------------------------------------------------------
\* handle_generate_source_notes / handle_process_missing_logs
\* ---------------------------------------------------------------------------

\* lines 152-161: the generating title, then the thread start
GenerateNotesBegin ==
  /\ phase = "built"
  /\ FreeThread
  /\ title' = GeneratingTitle
  /\ generating' = generating + 1
  /\ lastEvent' = "none"
  /\ UNCHANGED <<phase, ctorError, timerStarted, config, is_monitoring, cycles,
                 startChecked, logChecked, oneoff, logExists, logLen, appended>>

\* mutant: the title is restored after the try, not in a finally
GenerateRestores_OnSuccess(o) == o = "ok"

\* lines 158-159: finally: the idle icon is set
GenerateRestores(o) == TRUE

\* generate, lines 154-159, to the end of the thread
GenerateFinish(o) ==
  /\ generating > 0
  /\ generating' = generating - 1
  /\ IF GenerateRestores(o)
       THEN /\ title' = Restored(is_monitoring).title
            /\ is_monitoring' = Restored(is_monitoring).is_monitoring
       ELSE UNCHANGED <<title, is_monitoring>>
  /\ lastEvent' = IF o = "ok" THEN "none" ELSE "generate_failed"
  /\ UNCHANGED <<phase, ctorError, timerStarted, config, cycles, startChecked,
                 logChecked, oneoff, logExists, logLen, appended>>

\* lines 202-209: the thread runs process_saved_logs over config['notes_dir']
\* and opens the folder; neither the handler nor its thread assigns a field of
\* the controller or touches today's log
ProcessMissingLogs ==
  /\ phase = "built"
  /\ lastEvent' = "none"
  /\ UNCHANGED state

Next ==
  \/ \E file \in FileStates : Construct(file)
  \/ StartCheck
  \/ StartLaunch
  \/ StopMonitoring
  \/ \E file \in FileStates : CheckConfigChanges(file)
  \/ \E c \in BagToSet(cycles) : LoopTop(c)
  \/ \E c \in BagToSet(cycles) : SleepExit(c)
  \/ \E c \in BagToSet(cycles), ok \in BOOLEAN : Capture(c, ok)
  \/ \E c \in BagToSet(cycles), r \in Outcomes : Analyze(c, r)
  \/ \E ok \in BOOLEAN : AnalyzeOnceBegin(ok)
  \/ AnalyzeOnceInitLog
  \/ \E r \in Outcomes, postOk \in BOOLEAN : AnalyzeAndRestore(r, postOk)
  \/ GenerateNotesBegin
  \/ \E o \in GenerateOutcomes : GenerateFinish(o)
  \/ ProcessMissingLogs

Spec == Init /\ [][Next]_vars

\* ---------------------------------------------------------------------------
\* Properties
\* ---------------------------------------------------------------------------

Quiescent ==
  /\ oneoff = 0
  /\ logChecked = 0
  /\ \A c \in BagToSet(cycles) : c.pos # "busy"

\* C1: a config-drift poll (stop_monitoring then start_monitoring inside
\* check_config_changes) never leaves two background cycles alive: a poll taken
\* with at most one cycle alive ends with at most one cycle alive.
C1_PollNeverTwoCycles ==
  [][\A file \in FileStates :
       (CheckConfigChanges(file) /\ Alive <= 1) => Alive' <= 1]_vars

\* C2: Start() is idempotent: a Start() that reads is_monitoring = True changes no
\* field of the controller and starts no thread, so the cycles alive after it are
\* the ones alive before it.
C2_StartIdempotent ==
  [][(StartCheck /\ is_monitoring) => UNCHANGED state]_vars

C2_Witness ==
  /\ lastEvent = "start_noop"
  /\ is_monitoring
  /\ Alive = 1

\* C3: Stop() is total and idempotent: from any state it leaves is_monitoring False
\* and the idle icon; called when already Stopped it leaves is_monitoring as it
\* was, and called on the state a Stop() leaves (Stopped, idle icon) it changes
\* nothing.
C3_StopIdempotent ==
  [][StopMonitoring =>
       /\ is_monitoring' = FALSE
       /\ title' = IdleIcon
       /\ (~is_monitoring => is_monitoring' = is_monitoring)
       /\ ((~is_monitoring /\ title = IdleIcon) => UNCHANGED state)]_vars

C3_Witness ==
  /\ ~is_monitoring
  /\ title = IdleIcon
  /\ Alive > 0

\* C4: a drift poll that finds a new configuration while Running leaves it as the
\* current configuration with is_monitoring True, and every cycle that captures
\* after such a poll was given the current configuration, not the one of before.
C4_CaptureUsesAdoptedConfig ==
  [][/\ \A file \in FileStates :
          (CheckConfigChanges(file) /\ is_monitoring /\ ReadError(file) = "none"
             /\ file.cfg # config) => (config' = file.cfg /\ is_monitoring')
     /\ \A c \in BagToSet(cycles) :
          (c.stale /\ Capture(c, TRUE)) => c.cfg = config]_vars

\* C5: Start() has exclusive access to is_monitoring between its read and its
\* write: the call that sets the flag and starts the thread finds the flag still
\* False, so concurrent Start() calls on a Stopped controller launch one cycle.
C5_StartExclusive ==
  [][StartLaunch => ~is_monitoring]_vars

\* C6: a cycle that was in its interval sleep when Stop() was issued ends without
\* attempting another capture.
C6_StopEndsSleepingCycle ==
  [][\A c \in BagToSet(cycles) :
       c.stopped => ~(Capture(c, TRUE) \/ Capture(c, FALSE))]_vars

\* C7: no record is lost: once every one-off and every iteration has completed,
\* today's log holds as many records as were appended to it.
C7_NoRecordLost ==
  Quiescent => logLen = appended

\* C8: a failed capture or analysis of an iteration leaves is_monitoring as it
\* was and the cycle alive at its loop-top, ready for the next iteration, and a
\* successful iteration adds its record to the log.
C8_FailureContained ==
  [][/\ (lastEvent' = "cycle_failed") =>
          \A c \in BagToSet(cycles) :
             (Capture(c, FALSE) \/ Analyze(c, "error")) =>
                /\ is_monitoring' = is_monitoring
                /\ Alive' = Alive
                /\ CopiesIn(AtTop(c), cycles') > CopiesIn(AtTop(c), cycles)
                /\ UNCHANGED <<logExists, logLen>>
     /\ (appended' # appended) =>
          \A c \in BagToSet(cycles) :
             (\E r \in Outcomes \ {"error"} : Analyze(c, r)) =>
                /\ is_monitoring' = is_monitoring
                /\ logExists'
                /\ logLen' = logLen + 1]_vars

C8_Witness ==
  /\ lastEvent = "cycle_failed"
  /\ is_monitoring
  /\ \E c \in BagToSet(cycles) : c.pos = "top"
  /\ logLen > 0

\* C9: a drift poll whose read of config.json fails raises nothing and changes
\* neither the configuration, nor is_monitoring, nor the title, nor the cycles.
C9_ReadFailureIsNoOp ==
  [][\A file \in FileStates :
       (CheckConfigChanges(file) /\ ReadError(file) # "none") =>
          /\ lastEvent' # "poll_raised"
          /\ UNCHANGED <<config, is_monitoring, title, cycles>>]_vars

\* C10: constructing with no config.json fails with the ConfigMissing error, not
\* the I/O error of the read, and a failed construction leaves no controller:
\* no drift timer, no cycle, no handler running.
C10_ConfigMissing ==
  /\ [][(Construct(BadFile("missing"))) =>
          /\ phase' = "failed"
          /\ ctorError' = ConfigMissing
          /\ ctorError' # ReadError(BadFile("missing"))]_vars
  /\ [](phase = "failed" =>
          /\ ctorError # "none"
          /\ ~timerStarted
          /\ ~is_monitoring
          /\ cycles = EmptyBag
          /\ startChecked = 0 /\ logChecked = 0 /\ oneoff = 0)

C10_Witness ==
  /\ phase = "failed"
  /\ ctorError = ConfigMissing

\* the title that follows from is_monitoring alone
Derived(flag) == IF flag THEN ActiveIcon ELSE IdleIcon

\* no one-off thread, no generate thread, no background analysis is in flight
Quiet == Quiescent /\ generating = 0

\* C11: Stop() is cooperative: it leaves a capture or analysis in flight alone,
\* and a cycle that was sleeping when Stop() was called ends at the end of that
\* sleep, its next checkpoint, whatever happened to the flag in between.
C11_StopCooperative ==
  [][/\ StopMonitoring =>
          \A c \in BagToSet(cycles) :
             c.pos = "busy" => CopiesIn(c, cycles') = CopiesIn(c, cycles)
     /\ \A c \in BagToSet(cycles) :
          (c.stopped /\ (SleepExit(c) \/ Capture(c, TRUE) \/ Capture(c, FALSE)))
             => Alive' < Alive]_vars

\* C12: the title follows from is_monitoring whenever nothing is in flight; in
\* particular the step that completes an AnalyzeOnce or a GenerateNotes and
\* leaves nothing in flight leaves the active icon if monitoring runs and the
\* idle icon if it does not.
C12_TitleDerived ==
  [][((oneoff' < oneoff \/ generating' < generating) /\ Quiet') =>
       ((\/ \E r \in Outcomes \ {"error"} : AnalyzeAndRestore(r, TRUE)
         \/ \E o \in GenerateOutcomes : GenerateFinish(o))
           => title' = Derived(is_monitoring'))]_vars

\* C13: no AnalyzeOnce leaves the title on the analyzing indicator: once no
\* one-off and no background analysis is in flight the title is another one,
\* whether the capture, the analysis or the post-processing succeeded or not.
C13_AnalyzeOnceRestores ==
  Quiescent => title # AnalyzingTitle

\* C14: GenerateNotes sets the generating indicator and clears it on every exit
\* path of its thread: the title is the generating indicator only while a
\* generate thread is alive, also after a failed synthesis or a failed open.
C14_GeneratingCleared ==
  generating = 0 => title # GeneratingTitle

C14_Witness ==
  /\ lastEvent = "generate_failed"
  /\ generating = 0
  /\ title = IdleIcon

\* C15: a drift poll that reads a new configuration while monitoring is stopped
\* adopts it and leaves is_monitoring False, the title and the cycles as they
\* were: it stops nothing and launches nothing.
C15_StoppedPollAdopts ==
  [][(~is_monitoring /\ timerStarted) =>
       \A c \in Configs \ {config} :
          CheckConfigChanges(GoodFile(c)) =>
             /\ config' = c
             /\ ~is_monitoring'
             /\ UNCHANGED <<title, cycles, startChecked, oneoff, generating>>]_vars

\* a thread launched under another configuration lingers, never restarted,
\* while monitoring is stopped: the configuration changed under a stopped controller
C15_Witness ==
  /\ ~is_monitoring
  /\ \E c \in BagToSet(cycles) : ~c.stale /\ c.cfg # config

\* C16: a drift poll that reads a configuration structurally equal to the
\* current one changes nothing, however often it is repeated: no adoption, no
\* stop, no restart.
C16_SamePollNoOp ==
  [][timerStarted =>
       (CheckConfigChanges(GoodFile(config)) => UNCHANGED state)]_vars

C16_Witness ==
  /\ lastEvent = "poll_same"
  /\ is_monitoring
  /\ Alive = 1
  /\ \A c \in BagToSet(cycles) : ~c.stale

\* C17: the analysis of a one-off runs in a thread that exists only after its
\* capture, the analysis of an iteration only after that iteration's capture,
\* and the post-processing is invoked after the analysis exactly when the
\* result carries a non-empty summary.
C17_PostProcessIffSummary ==
  [][/\ (oneoff' < oneoff) =>
          \A r \in Outcomes, postOk \in BOOLEAN :
             AnalyzeAndRestore(r, postOk) =>
                /\ oneoff > 0
                /\ (lastEvent' = "post_processed") <=> (r = "summary")
     /\ (title' = ActiveIcon /\ cycles' # cycles) =>
          \A c \in BagToSet(cycles), r \in Outcomes :
             Analyze(c, r) =>
                /\ c.pos = "busy"
                /\ (lastEvent' = "post_processed") <=> (r = "summary")]_vars

\* a one-off, no cycle alive, has just post-processed the record it logged
C17_Witness ==
  /\ lastEvent = "post_processed"
  /\ Alive = 0
  /\ logLen > 0

\* C18: is_monitoring changes only in a step of Start, Stop or the drift poll,
\* and the configuration only in a step of the drift poll (or the constructor);
\* AnalyzeOnce, GenerateNotes, Process Missing Logs and the steps of a cycle
\* leave both as they were.
C18_OnlyLifecycleChangesFlag ==
  [][/\ (is_monitoring' # is_monitoring) =>
          \/ StartLaunch
          \/ StopMonitoring
          \/ \E file \in FileStates : CheckConfigChanges(file)
     /\ (config' # config) =>
          \/ \E file \in FileStates : Construct(file)
          \/ \E file \in FileStates : CheckConfigChanges(file)]_vars

\* a one-off has completed while monitoring runs, and it still runs
C18_Witness ==
  /\ is_monitoring
  /\ title = IdleIcon
  /\ Alive = 1
  /\ oneoff = 0 /\ generating = 0

\* C19: the completion of one AnalyzeOnce while another is still in flight
\* leaves the analyzing indicator in the title.
C19_BusyWhileAnyInFlight ==
  [][(oneoff' < oneoff /\ oneoff' + logChecked' > 0 /\ title = AnalyzingTitle)
       => title' = AnalyzingTitle]_vars

====
